---------------------------- MODULE Spec2Model ----------------------------
(***************************************************************************)
(* Model of the pca9548a driver (src/lib.rs): one Pca9548a controller that *)
(* owns the physical I2C bus inside a mutex, the select operations that    *)
(* take the mutex and write the control byte, and the SubBus proxies that  *)
(* select and then forward a transaction while the guard is held.          *)
(*                                                                         *)
(* Callers are threads (std::sync::Mutex) or tasks (embassy Mutex).  Every *)
(* call is split at the points where another caller can run: waiting for   *)
(* the mutex, the control-byte write, the forwarded transaction.           *)
(***************************************************************************)
EXTENDS Integers, Sequences, FiniteSets, TLC

\* ------------------------------------------------------------------ bounds

\* Number of concurrent callers (threads or tasks) sharing one controller.
NumCallers == 2

\* Total number of calls that perform bus I/O or locking, over all callers.
MaxCalls == 2

\* Largest channel id handed to single_subbus / select_single (ids >= 8 fault).
MaxId == 9

\* ------------------------------------------------------------- constants

\* pub const BASE_ADDRESS: u8 = 0x70
BASE_ADDRESS == 112

Callers == 1..NumCallers

\* The chip addresses selectable with the pins A0..A2.
ChipAddresses == {BASE_ADDRESS + 4 * a2 + 2 * a1 + a0 : a2 \in 0..1, a1 \in 0..1, a0 \in 0..1}

\* How the controller is instantiated and driven: with std::sync::Mutex
\* (blocking entry points), with the embassy mutex through the suspending entry
\* points, or with the embassy mutex through the blocking entry points, which
\* the async-to-sync adapter provides by block_on.
MutexKinds == {"std", "embassy", "async_to_sync"}

\* Errors a physical bus may report (embedded_hal::i2c::Error values).
BusErrors == {"NoAcknowledge", "ArbitrationLoss"}

\* embedded_hal::i2c::Operation::Write(bytes) / Operation::Read(buffer)
WriteOp(bytes) == [op |-> "Write", bytes |-> bytes, len |-> Len(bytes)]
ReadOp(n) == [op |-> "Read", bytes |-> <<>>, len |-> n]

NoCall == [mark |-> 0, op |-> "none", mode |-> "none", via |-> "none", arg |-> 0, mask |-> 0,
           target |-> 0, ops |-> <<>>]

\* ret when the last step completed no call
NoReturn == [by |-> 0, call |-> NoCall, result |-> [tag |-> "None", err |-> "none"], io |-> <<>>]

VARIABLES
    address,    \* Pca9548a::address
    kind,       \* the mutex type of the controller and the entry points used with it
    guards,     \* Pca9548a::bus (the mutex): the callers that own a live guard of it
    poisoned,   \* std::sync::Mutex poison flag
    pc,         \* where each caller is inside its current call
    call,       \* the call each caller is inside of (NoCall when it is in none)
    ret,        \* the call that returned in the step leading here, and what it returned
    trace,      \* every operation performed on the physical bus, in order
    chip,       \* the channel mask currently latched in the multiplexer chip
    ncalls      \* calls started so far

vars == <<address, kind, guards, poisoned, pc, call, ret, trace, chip, ncalls>>

\* ------------------------------------------------------------ pure parts

\* `1 << id` on u8; the code evaluates it only after assert!(id < 8)
Shl(x, n) == (x * (2 ^ n)) % 256

\* An assert that lets id 8 through.
IdInRange_Inclusive(id) == id <= 8

\* assert!(id < 8)
IdInRange(id) == id < 8

\* The id passed on as the mask, without the shift.
SingleMask_NoShift(id) == id

\* self.subbus(1 << id) / self.select_mask(1 << id)
SingleMask(id) == Shl(1, id)

\* Pca9548a::subbus: SubBus { pca: self, mask }
Subbus(mask) == [some |-> TRUE, mask |-> mask]

\* Pca9548a::single_subbus: the proxy, or no proxy when the assert fails
SingleSubbus(id) == IF IdInRange(id) THEN Subbus(SingleMask(id)) ELSE [some |-> FALSE, mask |-> 0]

\* A control byte cut to seven bits, as an address would be.
ControlBytes_SevenBit(mask) == <<mask % 128>>

\* &[mask], the buffer of the control-byte write
ControlBytes(mask) == <<mask>>

\* .map_err(Error::Mutex) / .map_err(Error::Bus)
ErrMutex == [tag |-> "Mutex", err |-> "()"]

\* A bus error wrapped in the wrong variant.
ErrBus_AsMutex(e) == [tag |-> "Mutex", err |-> e]

ErrBus(e) == [tag |-> "Bus", err |-> e]

\* embedded_hal::i2c::Error::kind of the errors the physical bus reports.
BusErrorKind(e) ==
    CASE e = "NoAcknowledge" -> "NoAcknowledge"
      [] e = "ArbitrationLoss" -> "ArbitrationLoss"
      [] OTHER -> "Other"

\* A kind() that reports a lock failure as Other.
Kind_MutexOther(err) ==
    IF err.tag = "Mutex" THEN "Other" ELSE BusErrorKind(err.err)

\* <Error<M, B> as embedded_hal::i2c::Error>::kind
Kind(err) ==
    CASE err.tag = "Mutex" -> "Overrun"
      [] err.tag = "Bus" -> BusErrorKind(err.err)

\* Ok(bus): the guard is handed to the caller.  Ok(()): nothing is.
OkGuard == [tag |-> "OkGuard", err |-> "none"]
OkUnit == [tag |-> "Ok", err |-> "none"]

\* The caller's assert! failed: no value is returned.
Panicked == [tag |-> "Panic", err |-> "none"]

\* The entry points in use: the *_async functions with an AsyncMutex, the
\* blocking ones with a SyncMutex.
Mode == IF kind = "embassy" THEN "async" ELSE "sync"

\* A mutex that grants lock() while a guard exists.
LockAvailable_Always == TRUE

\* The mutex is locked while a guard of it exists; lock() is granted only
\* when it is unlocked.
LockAvailable == guards = {}

\* A lock() that hands out the guard of a poisoned mutex.
LockFails_Never == FALSE

\* lock() fails when the std mutex is poisoned: self.lock().or(Err(())).  The
\* embassy mutex never fails (its Error is Infallible) and is never poisoned.
LockFails == poisoned

\* lock() granted to p: p owns the new guard.
GuardAcquired(p) == guards \cup {p}

\* A select that drops its guard before returning.
GuardAfterSelect_Released(p) == guards \ {p}

\* Ok(bus): select hands the guard it acquired to its caller, still alive.
GuardAfterSelect(p) == guards

\* A guard whose drop does not unlock the mutex.
GuardDropped_Kept(p) == guards

\* p's guard goes out of scope, which unlocks the mutex.
GuardDropped(p) == guards \ {p}

\* One entry of the bus trace: who issued it, through I2c::write or
\* I2c::transaction, to which address, with which operations, what the bus
\* answered ("ok" or its error), and which guards existed at that moment.
BusEntry(p, how, addr, ops, res) ==
    [by |-> p, how |-> how, addr |-> addr, ops |-> ops, res |-> res, holders |-> guards]

\* A forward that reuses the chip's address.
ForwardTarget_Chip(p) == address

\* .transaction(address, operations): the caller's target and operations
ForwardTarget(p) == call[p].target
ForwardOps(p) == call[p].ops

\* The mask the chip latches: the last byte of the last write to its address.
RECURSIVE LastWritten(_, _)
LastWritten(ops, old) ==
    IF ops = <<>> THEN old
    ELSE LET o == ops[Len(ops)]
         IN IF o.op = "Write" /\ o.bytes # <<>> THEN o.bytes[Len(o.bytes)]
            ELSE LastWritten(SubSeq(ops, 1, Len(ops) - 1), old)

ChipAfter(addr, ops) == IF addr = address THEN LastWritten(ops, chip) ELSE chip

\* The bus operations p issued since its current call started, given the trace.
IssuedBy(p, tr) ==
    LET mine(e) == e.by = p
    IN SelectSeq(SubSeq(tr, call[p].mark + 1, Len(tr)), mine)

\* ----------------------------------------------------------------- Init

InitWith(addrs) ==
    /\ address \in addrs
    /\ kind \in MutexKinds
    /\ guards = {}
    /\ poisoned = FALSE
    /\ pc = [p \in Callers |-> "idle"]
    /\ call = [p \in Callers |-> NoCall]
    /\ ret = NoReturn
    /\ trace = <<>>
    /\ chip = 0
    /\ ncalls = 0

Init == InitWith({BASE_ADDRESS})

\* -------------------------------------------------------------- actions

CanCall(p) ==
    /\ pc[p] = "idle"
    /\ ncalls < MaxCalls

NewCall(op, via, arg, mask, target, ops) ==
    [mark |-> Len(trace), op |-> op, mode |-> Mode, via |-> via, arg |-> arg, mask |-> mask,
     target |-> target, ops |-> ops]

StartCall(p, op, via, arg, mask, target, ops) ==
    /\ ncalls' = ncalls + 1
    /\ call' = [call EXCEPT ![p] = NewCall(op, via, arg, mask, target, ops)]
    /\ pc' = [pc EXCEPT ![p] = "acquire"]
    /\ ret' = NoReturn
    /\ UNCHANGED <<address, kind, guards, poisoned, trace, chip>>

\* The call of p ends with result res; tr is the bus trace at that moment.
Return(p, res, tr) ==
    /\ pc' = [pc EXCEPT ![p] = "idle"]
    /\ call' = [call EXCEPT ![p] = NoCall]
    /\ ret' = [by |-> p, call |-> call[p], result |-> res, io |-> IssuedBy(p, tr)]

\* A panic of a guard holder that poisons every kind of mutex.
Fault_PoisonsAny(p, op, via, arg) ==
    /\ pc' = [pc EXCEPT ![p] = "panicked"]
    /\ ret' = [by |-> p, call |-> NewCall(op, via, arg, 0, 0, <<>>), result |-> Panicked,
               io |-> <<>>]
    /\ poisoned' = (poisoned \/ p \in guards)
    /\ guards' = GuardDropped(p)
    /\ UNCHANGED <<address, kind, call, trace, chip, ncalls>>

\* A failed assert!: the caller unwinds, which drops any guard it still holds;
\* a std mutex whose guard is dropped by a panicking thread becomes poisoned.
Fault(p, op, via, arg) ==
    /\ pc' = [pc EXCEPT ![p] = "panicked"]
    /\ ret' = [by |-> p, call |-> NewCall(op, via, arg, 0, 0, <<>>), result |-> Panicked,
               io |-> <<>>]
    /\ poisoned' = (poisoned \/ (kind = "std" /\ p \in guards))
    /\ guards' = GuardDropped(p)
    /\ UNCHANGED <<address, kind, call, trace, chip, ncalls>>

\* Pca9548a::bus / Pca9548a::bus_async
Bus(p) ==
    /\ CanCall(p)
    /\ StartCall(p, "bus", "none", 0, 0, 0, <<>>)

\* Pca9548a::select_mask / Pca9548a::select_mask_async
SelectMask(p, mask) ==
    /\ CanCall(p)
    /\ StartCall(p, "select_mask", "none", mask, mask, 0, <<>>)

\* Pca9548a::select_single / Pca9548a::select_single_async
SelectSingle(p, id) ==
    /\ CanCall(p)
    /\ IF IdInRange(id)
       THEN StartCall(p, "select_single", "none", id, SingleMask(id), 0, <<>>)
       ELSE Fault(p, "select_single", "none", id)

\* SubBus::select / SubBus::select_async on the proxy sb
Select(p, sb, via, arg) ==
    /\ CanCall(p)
    /\ IF sb.some
       THEN StartCall(p, "select", via, arg, sb.mask, 0, <<>>)
       ELSE Fault(p, "select", via, arg)

\* SubBus::transaction (sync and async) on the proxy sb, up to the select it starts with
Transaction(p, sb, via, arg, target, ops) ==
    /\ CanCall(p)
    /\ IF sb.some
       THEN StartCall(p, "transaction", via, arg, sb.mask, target, ops)
       ELSE Fault(p, "transaction", via, arg)

\* pca.subbus(mask).select() and pca.single_subbus(id).select()
SubbusSelect(p, mask) == Select(p, Subbus(mask), "subbus", mask)
SingleSubbusSelect(p, id) == Select(p, SingleSubbus(id), "single_subbus", id)

\* pca.subbus(mask).transaction(..) and pca.single_subbus(id).transaction(..)
SubbusTransaction(p, mask, target, ops) ==
    Transaction(p, Subbus(mask), "subbus", mask, target, ops)
SingleSubbusTransaction(p, id, target, ops) ==
    Transaction(p, SingleSubbus(id), "single_subbus", id, target, ops)

\* The result of a call that hands out a proxy.
OkProxy == [tag |-> "SubBus", err |-> "none"]

\* A subbus that waits for the bus to be free before it hands out the proxy.
MakeSubbus_Locking(p, mask) ==
    /\ pc[p] = "idle"
    /\ LockAvailable
    /\ ret' = [by |-> p, call |-> NewCall("subbus", "subbus", mask, Subbus(mask).mask, 0, <<>>),
               result |-> OkProxy, io |-> <<>>]
    /\ UNCHANGED <<address, kind, guards, poisoned, pc, call, trace, chip, ncalls>>

\* Pca9548a::subbus as a call of its own: the proxy is handed out
MakeSubbus(p, mask) ==
    /\ pc[p] = "idle"
    /\ ret' = [by |-> p, call |-> NewCall("subbus", "subbus", mask, Subbus(mask).mask, 0, <<>>),
               result |-> OkProxy, io |-> <<>>]
    /\ UNCHANGED <<address, kind, guards, poisoned, pc, call, trace, chip, ncalls>>

\* Pca9548a::single_subbus as a call of its own
MakeSingleSubbus(p, id) ==
    /\ pc[p] = "idle"
    /\ IF SingleSubbus(id).some
       THEN /\ ret' = [by |-> p,
                       call |-> NewCall("single_subbus", "single_subbus", id,
                                        SingleSubbus(id).mask, 0, <<>>),
                       result |-> OkProxy, io |-> <<>>]
            /\ UNCHANGED <<address, kind, guards, poisoned, pc, call, trace, chip, ncalls>>
       ELSE Fault(p, "single_subbus", "single_subbus", id)

\* A block_on that lets the executor run its other tasks while it waits.
ThreadFree_Yielding(p) == TRUE

\* embassy_futures::block_on polls the lock future in a loop on the calling
\* thread and never returns to the executor: while a task of a single-threaded
\* cooperative executor is inside a blocking call, no other task of that
\* executor runs.  ThreadFree(p): no task other than p occupies the thread.
ThreadFree(p) == \A q \in Callers \ {p} : pc[q] \in {"idle", "panicked"}

\* A lock() that is granted to a caller that already holds the guard.
Acquire_Reentrant(p) ==
    /\ pc[p] = "acquire"
    /\ LockAvailable \/ p \in guards
    /\ IF LockFails
       THEN /\ Return(p, ErrMutex, trace)
            /\ UNCHANGED guards
       ELSE /\ guards' = GuardAcquired(p)
            /\ IF call[p].op = "bus"
               THEN Return(p, OkGuard, trace)
               ELSE /\ pc' = [pc EXCEPT ![p] = "write"]
                    /\ ret' = NoReturn
                    /\ UNCHANGED call
    /\ UNCHANGED <<address, kind, poisoned, trace, chip, ncalls>>

\* self.bus.lock(): granted when the mutex is free.  A poisoned std mutex
\* yields Err(()) and the guard inside the PoisonError is dropped at once.
Acquire(p) ==
    /\ pc[p] = "acquire"
    /\ LockAvailable
    /\ IF LockFails
       THEN /\ Return(p, ErrMutex, trace)
            /\ UNCHANGED guards
       ELSE /\ guards' = GuardAcquired(p)
            /\ IF call[p].op = "bus"
               THEN Return(p, OkGuard, trace)
               ELSE /\ pc' = [pc EXCEPT ![p] = "write"]
                    /\ ret' = NoReturn
                    /\ UNCHANGED call
    /\ UNCHANGED <<address, kind, poisoned, trace, chip, ncalls>>

\* std::sync::Mutex::lock on a mutex the calling thread already holds never
\* returns: it blocks forever or panics.  The panic unwinds the caller, which
\* drops the guard it holds and poisons the mutex.
RelockPanic(p) ==
    /\ kind = "std"
    /\ pc[p] = "acquire"
    /\ p \in guards
    /\ pc' = [pc EXCEPT ![p] = "panicked"]
    /\ call' = [call EXCEPT ![p] = NoCall]
    /\ ret' = [by |-> p, call |-> call[p], result |-> Panicked, io |-> <<>>]
    /\ poisoned' = TRUE
    /\ guards' = GuardDropped(p)
    /\ UNCHANGED <<address, kind, trace, chip, ncalls>>

\* A select that skips the control write when the chip already latches the mask.
WriteControlOk_Cached(p) ==
    /\ pc[p] = "write"
    /\ LET ops == <<WriteOp(ControlBytes(call[p].mask))>>
       IN /\ trace' = IF chip = call[p].mask THEN trace
                      ELSE Append(trace, BusEntry(p, "write", address, ops, "ok"))
          /\ chip' = ChipAfter(address, ops)
    /\ guards' = GuardAfterSelect(p)
    /\ IF call[p].op = "transaction"
       THEN /\ pc' = [pc EXCEPT ![p] = "forward"]
            /\ ret' = NoReturn
            /\ UNCHANGED call
       ELSE Return(p, OkGuard, trace')
    /\ UNCHANGED <<address, kind, poisoned, ncalls>>

\* bus.write(self.address, &[mask]).map_err(Error::Bus)?; Ok(bus)
WriteControlOk(p) ==
    /\ pc[p] = "write"
    /\ LET ops == <<WriteOp(ControlBytes(call[p].mask))>>
       IN /\ trace' = Append(trace, BusEntry(p, "write", address, ops, "ok"))
          /\ chip' = ChipAfter(address, ops)
    /\ guards' = GuardAfterSelect(p)
    /\ IF call[p].op = "transaction"
       THEN /\ pc' = [pc EXCEPT ![p] = "forward"]
            /\ ret' = NoReturn
            /\ UNCHANGED call
       ELSE Return(p, OkGuard, trace')
    /\ UNCHANGED <<address, kind, poisoned, ncalls>>

\* A failed control-byte write that is tried again under the same guard.
WriteControlErr_Retry(p, e) ==
    /\ pc[p] = "write"
    /\ LET ops == <<WriteOp(ControlBytes(call[p].mask))>>
       IN trace' = Append(trace, BusEntry(p, "write", address, ops, e))
    /\ ret' = NoReturn
    /\ UNCHANGED <<address, kind, guards, poisoned, pc, call, chip, ncalls>>

WriteControlErr(p, e) ==
    /\ pc[p] = "write"
    /\ LET ops == <<WriteOp(ControlBytes(call[p].mask))>>
       IN trace' = Append(trace, BusEntry(p, "write", address, ops, e))
    /\ guards' = GuardDropped(p)
    /\ Return(p, ErrBus(e), trace')
    /\ UNCHANGED <<address, kind, poisoned, chip, ncalls>>

\* .transaction(address, operations).map_err(Error::Bus), then the guard drops
ForwardOk(p) ==
    /\ pc[p] = "forward"
    /\ trace' = Append(trace, BusEntry(p, "transaction", ForwardTarget(p), ForwardOps(p), "ok"))
    /\ chip' = ChipAfter(ForwardTarget(p), ForwardOps(p))
    /\ guards' = GuardDropped(p)
    /\ Return(p, OkUnit, trace')
    /\ UNCHANGED <<address, kind, poisoned, ncalls>>

\* A failing forward that keeps its guard alive.
ForwardErr_Leak(p, e) ==
    /\ pc[p] = "forward"
    /\ trace' = Append(trace, BusEntry(p, "transaction", ForwardTarget(p), ForwardOps(p), e))
    /\ Return(p, ErrBus(e), trace')
    /\ UNCHANGED <<address, kind, guards, poisoned, chip, ncalls>>

ForwardErr(p, e) ==
    /\ pc[p] = "forward"
    /\ trace' = Append(trace, BusEntry(p, "transaction", ForwardTarget(p), ForwardOps(p), e))
    /\ guards' = GuardDropped(p)
    /\ Return(p, ErrBus(e), trace')
    /\ UNCHANGED <<address, kind, poisoned, chip, ncalls>>

\* The result recorded for a call whose future was dropped at the await of
\* stage: "acquire" (lock().await), "write" or "forward" (the bus operation).
Cancelled(stage) == [tag |-> "Cancelled", err |-> stage]

\* A cancelled lock().await that stays in the line of waiters.
CancelWaiting_Queued(p) ==
    /\ call[p].mode = "async"
    /\ pc[p] = "acquire"
    /\ ret' = [by |-> p, call |-> call[p], result |-> Cancelled("acquire"), io |-> <<>>]
    /\ UNCHANGED <<address, kind, guards, poisoned, pc, call, trace, chip, ncalls>>

\* The future of an async call is dropped while it is suspended in
\* self.bus_async().await: the call ends there, without the lock.
CancelWaiting(p) ==
    /\ call[p].mode = "async"
    /\ pc[p] = "acquire"
    /\ pc' = [pc EXCEPT ![p] = "idle"]
    /\ call' = [call EXCEPT ![p] = NoCall]
    /\ ret' = [by |-> p, call |-> call[p], result |-> Cancelled("acquire"),
               io |-> IssuedBy(p, trace)]
    /\ UNCHANGED <<address, kind, guards, poisoned, trace, chip, ncalls>>

\* The bus operation a call suspended at pc "write" or "forward" is awaiting.
PendingTarget(p) == IF pc[p] = "write" THEN address ELSE ForwardTarget(p)
PendingOps(p) ==
    IF pc[p] = "write" THEN <<WriteOp(ControlBytes(call[p].mask))>> ELSE ForwardOps(p)

\* A cancelled call whose guard outlives the dropped future.
CancelHolding_Leak(p, landed) ==
    /\ call[p].mode = "async"
    /\ pc[p] \in {"write", "forward"}
    /\ trace' = Append(trace, BusEntry(p, IF pc[p] = "write" THEN "write" ELSE "transaction",
                                       PendingTarget(p), PendingOps(p), "cancelled"))
    /\ chip' = IF landed THEN ChipAfter(PendingTarget(p), PendingOps(p)) ELSE chip
    /\ pc' = [pc EXCEPT ![p] = "idle"]
    /\ call' = [call EXCEPT ![p] = NoCall]
    /\ ret' = [by |-> p, call |-> call[p], result |-> Cancelled(pc[p]),
               io |-> IssuedBy(p, trace')]
    /\ UNCHANGED <<address, kind, guards, poisoned, ncalls>>

\* The future of an async call is dropped while it is suspended in
\* bus.write(..).await or .transaction(..).await: the guard, a local of the
\* future, is dropped with it.  The pending bus operation was issued; whether
\* its bytes reached the chip (landed) is up to the bus driver.
CancelHolding(p, landed) ==
    /\ call[p].mode = "async"
    /\ pc[p] \in {"write", "forward"}
    /\ trace' = Append(trace, BusEntry(p, IF pc[p] = "write" THEN "write" ELSE "transaction",
                                       PendingTarget(p), PendingOps(p), "cancelled"))
    /\ chip' = IF landed THEN ChipAfter(PendingTarget(p), PendingOps(p)) ELSE chip
    /\ guards' = GuardDropped(p)
    /\ pc' = [pc EXCEPT ![p] = "idle"]
    /\ call' = [call EXCEPT ![p] = NoCall]
    /\ ret' = [by |-> p, call |-> call[p], result |-> Cancelled(pc[p]),
               io |-> IssuedBy(p, trace')]
    /\ UNCHANGED <<address, kind, poisoned, ncalls>>

\* A drop that does not unlock.
DropGuard_Leak(p) ==
    /\ pc[p] = "idle"
    /\ p \in guards
    /\ ret' = [by |-> p, call |-> [NoCall EXCEPT !.op = "drop"], result |-> OkUnit, io |-> <<>>]
    /\ UNCHANGED <<address, kind, guards, poisoned, pc, call, trace, chip, ncalls>>

\* The caller drops a guard it was handed by bus / select_mask / select_single / select.
DropGuard(p) ==
    /\ pc[p] = "idle"
    /\ p \in guards
    /\ guards' = GuardDropped(p)
    /\ ret' = [by |-> p, call |-> [NoCall EXCEPT !.op = "drop"], result |-> OkUnit, io |-> <<>>]
    /\ UNCHANGED <<address, kind, poisoned, pc, call, trace, chip, ncalls>>

\* ------------------------------------------------------- specifications

SampleMasks == {5}
SampleIds == {1, 8}
SampleTargets == {66}
SampleOps == {<<WriteOp(<<1, 2, 3>>)>>}
SampleErrors == {"NoAcknowledge"}
SampleWriteErrors == {"ArbitrationLoss"}

Next ==
    \/ \E p \in Callers : Bus(p)
    \/ \E p \in Callers, m \in SampleMasks : SelectMask(p, m)
    \/ \E p \in Callers, id \in SampleIds : SelectSingle(p, id)
    \/ \E p \in Callers, m \in SampleMasks : SubbusSelect(p, m)
    \/ \E p \in Callers, id \in SampleIds : SingleSubbusSelect(p, id)
    \/ \E p \in Callers, m \in SampleMasks, t \in SampleTargets, ops \in SampleOps :
            SubbusTransaction(p, m, t, ops)
    \/ \E p \in Callers, id \in SampleIds, t \in SampleTargets, ops \in SampleOps :
            SingleSubbusTransaction(p, id, t, ops)
    \/ \E p \in Callers : Acquire(p)
    \/ \E p \in Callers : RelockPanic(p)
    \/ \E p \in Callers : WriteControlOk(p)
    \/ \E p \in Callers, e \in SampleWriteErrors : WriteControlErr(p, e)
    \/ \E p \in Callers : ForwardOk(p)
    \/ \E p \in Callers, e \in SampleErrors : ForwardErr(p, e)
    \/ \E p \in Callers : DropGuard(p)

Spec == Init /\ [][Next]_vars

\* One call from the initial state, by caller 1, with every mask, every id up to
\* MaxId, every chip address and both targets; the steps of the call follow.
WideTargets == {66, address}
WideOps == {<<WriteOp(<<1, 2, 3>>)>>, <<WriteOp(<<9>>), ReadOp(2)>>}

NextWide ==
    \/ ncalls = 0 /\ Bus(1)
    \/ \E m \in 0..255 : ncalls = 0 /\ SelectMask(1, m)
    \/ \E id \in 0..MaxId : ncalls = 0 /\ SelectSingle(1, id)
    \/ \E m \in 0..255 : ncalls = 0 /\ SubbusSelect(1, m)
    \/ \E id \in 0..MaxId : ncalls = 0 /\ SingleSubbusSelect(1, id)
    \/ \E m \in 0..255, t \in WideTargets, ops \in WideOps :
            ncalls = 0 /\ SubbusTransaction(1, m, t, ops)
    \/ \E id \in 0..MaxId, t \in WideTargets, ops \in WideOps :
            ncalls = 0 /\ SingleSubbusTransaction(1, id, t, ops)
    \/ Acquire(1)
    \/ WriteControlOk(1)
    \/ \E e \in BusErrors : WriteControlErr(1, e)
    \/ ForwardOk(1)
    \/ \E e \in BusErrors : ForwardErr(1, e)
    \/ DropGuard(1)

SpecWide == InitWith(ChipAddresses) /\ [][NextWide]_vars

\* Proxies are made while bus guards are taken and dropped and proxy
\* transactions run, on the chips with all address pins low and all high.
NextFrame ==
    \/ \E p \in Callers, m \in {255} : MakeSubbus(p, m)
    \/ \E p \in Callers, id \in {7, MaxId} : MakeSingleSubbus(p, id)
    \/ \E p \in Callers : Bus(p)
    \/ \E p \in Callers, m \in SampleMasks, t \in SampleTargets, ops \in SampleOps :
            SubbusTransaction(p, m, t, ops)
    \/ \E p \in Callers : Acquire(p)
    \/ \E p \in Callers : WriteControlOk(p)
    \/ \E p \in Callers, e \in SampleErrors : WriteControlErr(p, e)
    \/ \E p \in Callers : ForwardOk(p)
    \/ \E p \in Callers : DropGuard(p)

SpecFrame == InitWith({BASE_ADDRESS, BASE_ADDRESS + 7}) /\ [][NextFrame]_vars

\* The suspending entry points on the embassy mutex, with tasks whose futures
\* may be dropped at any await.
InitCancel == InitWith({BASE_ADDRESS}) /\ kind = "embassy"

NextCancel ==
    \/ \E p \in Callers, m \in SampleMasks : SelectMask(p, m)
    \/ \E p \in Callers, m \in SampleMasks, t \in SampleTargets, ops \in SampleOps :
            SubbusTransaction(p, m, t, ops)
    \/ \E p \in Callers, t \in SampleTargets, ops \in SampleOps :
            SingleSubbusTransaction(p, 1, t, ops)
    \/ \E p \in Callers : Acquire(p)
    \/ \E p \in Callers : WriteControlOk(p)
    \/ \E p \in Callers, e \in SampleErrors : WriteControlErr(p, e)
    \/ \E p \in Callers : ForwardOk(p)
    \/ \E p \in Callers, e \in SampleErrors : ForwardErr(p, e)
    \/ \E p \in Callers : DropGuard(p)
    \/ \E p \in Callers : CancelWaiting(p)
    \/ \E p \in Callers, landed \in BOOLEAN : CancelHolding(p, landed)

SpecCancel == InitCancel /\ [][NextCancel]_vars

\* The blocking entry points through the async-to-sync adapter, called by the
\* tasks of one single-threaded cooperative executor.  A task between two calls
\* is suspended at an await of its own and may keep a guard across it.
InitCoop == InitWith({BASE_ADDRESS}) /\ kind = "async_to_sync"

NextCoop ==
    \/ \E p \in Callers : ThreadFree(p) /\ Bus(p)
    \/ \E p \in Callers, m \in SampleMasks : ThreadFree(p) /\ SelectMask(p, m)
    \/ \E p \in Callers : ThreadFree(p) /\ SelectSingle(p, 1)
    \/ \E p \in Callers, m \in SampleMasks, t \in SampleTargets, ops \in SampleOps :
            ThreadFree(p) /\ SubbusTransaction(p, m, t, ops)
    \/ \E p \in Callers : ThreadFree(p) /\ Acquire(p)
    \/ \E p \in Callers : ThreadFree(p) /\ WriteControlOk(p)
    \/ \E p \in Callers, e \in SampleErrors : ThreadFree(p) /\ WriteControlErr(p, e)
    \/ \E p \in Callers : ThreadFree(p) /\ ForwardOk(p)
    \/ \E p \in Callers, e \in SampleErrors : ThreadFree(p) /\ ForwardErr(p, e)
    \/ \E p \in Callers : ThreadFree(p) /\ DropGuard(p)

SpecCoop == InitCoop /\ [][NextCoop]_vars

\* Callers that only perform proxy transactions, so that no guard outlives a
\* call.  Every bus operation returns, a free mutex grants a pending lock(),
\* and the scheduler runs every caller that can run: each caller's next step is
\* taken if it stays possible.
Step(p) ==
    \/ Acquire(p)
    \/ WriteControlOk(p)
    \/ \E e \in SampleErrors : WriteControlErr(p, e)
    \/ ForwardOk(p)
    \/ \E e \in SampleErrors : ForwardErr(p, e)

NextLive ==
    \/ \E p \in Callers, id \in SampleIds, t \in SampleTargets, ops \in SampleOps :
            SingleSubbusTransaction(p, id, t, ops)
    \/ \E p \in Callers : Step(p)

SpecLive ==
    /\ Init
    /\ [][NextLive]_vars
    /\ \A p \in Callers : WF_vars(Step(p))

\* --------------------------------------------------------------- claims

\* The callers inside the part of a call that runs between lock() and the
\* drop of the guard.
InCritical == {p \in Callers : pc[p] \in {"write", "forward"}}

\* C1: at most one caller holds the bus guard at any time; every operation in
\* the bus trace was issued by the one caller whose guard existed at that moment;
\* a caller still waiting for the lock has issued no bus operation in its call.
C1_MutualExclusion ==
    /\ Cardinality(guards) <= 1
    /\ Cardinality(InCritical) <= 1
    /\ InCritical \subseteq guards
    /\ \A i \in 1..Len(trace) : trace[i].holders = {trace[i].by}
    /\ \A p \in Callers : pc[p] = "acquire" => IssuedBy(p, trace) = <<>>

\* One caller has written its control byte and holds the guard while another
\* caller's select waits for the lock.
C1_Witness ==
    \E p, q \in Callers :
        /\ p # q
        /\ pc[p] = "forward"
        /\ guards = {p}
        /\ pc[q] = "acquire"
        /\ trace # <<>>

\* C2: between a proxy's control-byte write and its forwarded transaction no
\* other control byte reaches the chip: while a caller is about to forward, the
\* mask latched in the chip is the mask of its proxy, and every forwarded
\* transaction in the trace directly follows the successful control-byte write
\* of the same caller.
C2_NoInterleaving ==
    /\ \A p \in Callers : pc[p] = "forward" => chip = call[p].mask
    /\ \A i \in 1..Len(trace) :
            trace[i].how = "transaction" =>
                /\ i > 1
                /\ trace[i - 1].how = "write"
                /\ trace[i - 1].by = trace[i].by
                /\ trace[i - 1].res = "ok"
                /\ trace[i - 1].addr = address

\* A proxy is about to forward while another caller's proxy transaction with a
\* different mask waits for the lock.
C2_Witness ==
    \E p, q \in Callers :
        /\ p # q
        /\ pc[p] = "forward"
        /\ pc[q] = "acquire"
        /\ call[q].op = "transaction"
        /\ call[q].mask # call[p].mask

\* The calls that take the lock: bus, the selects and the proxy transaction.
LockingOps == {"bus", "select_mask", "select_single", "select", "transaction"}

\* The calls that write the control byte.
SelectingOps == LockingOps \ {"bus"}

\* The trace entry of a control-byte write of mask by p that the bus answered with res.
ControlWrite(p, mask, res) ==
    [by |-> p, how |-> "write", addr |-> address,
     ops |-> <<[op |-> "Write", bytes |-> <<mask>>, len |-> 1]>>, res |-> res, holders |-> {p}]

\* C3: a successful select_mask / select_mask_async of any mask 0..255 on any
\* chip address has written exactly one control byte, equal to the mask, to the
\* stored address while holding the lock, has performed no other bus I/O, and
\* returns with the guard still owned by the caller.
C3_SelectMaskOneControlByte ==
    (ret.call.op = "select_mask" /\ ret.result = OkGuard) =>
        /\ ret.call.arg \in 0..255
        /\ ret.io = <<ControlWrite(ret.by, ret.call.arg, "ok")>>
        /\ trace = ret.io
        /\ chip = ret.call.arg
        /\ guards = {ret.by}

\* select_mask(255) has just succeeded on the chip with all address pins high.
C3_Witness ==
    /\ ret.call.op = "select_mask"
    /\ ret.result = OkGuard
    /\ ret.call.arg = 255
    /\ address = BASE_ADDRESS + 7
    /\ Len(trace) = 1

\* C4: a call whose lock acquisition fails returns Error::Mutex and has issued
\* no bus operation, neither the control byte nor a forwarded transaction; once
\* the mutex is poisoned every locking call ends this way and no caller is
\* between lock() and the drop of a guard.
C4_LockFailureNoIO ==
    /\ ret.result.tag = "Mutex" =>
            /\ ret.result = ErrMutex
            /\ ret.io = <<>>
            /\ ret.by \notin guards
    /\ poisoned => InCritical = {}
    /\ (poisoned /\ ret.call.op \in LockingOps /\ ret.result # Panicked) => ret.result = ErrMutex

\* A proxy transaction has just failed with Error::Mutex on a bus that an
\* earlier call had written to.
C4_Witness ==
    /\ ret.result = ErrMutex
    /\ ret.call.op = "transaction"
    /\ trace # <<>>

\* C5: a select whose control-byte write fails returns Error::Bus carrying the
\* error the bus reported, never Error::Mutex; it has issued nothing but that
\* write, the caller owns no guard, and the lock is free: a caller waiting for it
\* can acquire it.
C5_ControlWriteFailure ==
    (ret.call.op \in SelectingOps /\ ret.io # <<>> /\ ret.io[1].how = "write"
        /\ ret.io[1].res # "ok") =>
        /\ ret.io[1].res \in BusErrors
        /\ ret.result = [tag |-> "Bus", err |-> ret.io[1].res]
        /\ Len(ret.io) = 1
        /\ guards = {}
        /\ \A q \in Callers : pc[q] = "acquire" => ENABLED Acquire(q)

\* select_mask has just failed with the bus's ArbitrationLoss while another
\* caller waits for the lock.
C5_Witness ==
    /\ ret.call.op = "select_mask"
    /\ ret.result = [tag |-> "Bus", err |-> "ArbitrationLoss"]
    /\ \E q \in Callers : pc[q] = "acquire"

\* The trace entry of a transaction to target with ops by p, answered with res.
Forwarded(p, target, ops, res) ==
    [by |-> p, how |-> "transaction", addr |-> target, ops |-> ops, res |-> res, holders |-> {p}]

\* The mask of the proxy a call was made through: the mask given to subbus, or
\* bit id alone for single_subbus(id).
ProxyMask(c) == IF c.via = "single_subbus" THEN 2 ^ c.arg ELSE c.arg

\* C6: a successful proxy transaction has put on the bus exactly one write of
\* [mask] to the chip address followed by one transaction to the caller's
\* target address with the caller's operations unchanged, and nothing else.
C6_TransactionSequence ==
    (ret.call.op = "transaction" /\ ret.result = OkUnit) =>
        /\ ret.io = <<ControlWrite(ret.by, ProxyMask(ret.call), "ok"),
                      Forwarded(ret.by, ret.call.target, ret.call.ops, "ok")>>
        /\ trace = ret.io

\* The channel-0 proxy of the controller at 0x70 has written [1,2,3] to 0x42:
\* the bus saw write(0x70,[0x01]) and then the transaction write(0x42,[1,2,3]).
C6_Witness ==
    /\ address = 112
    /\ ret.call.op = "transaction"
    /\ ret.call.via = "single_subbus"
    /\ ret.call.arg = 0
    /\ ret.result = OkUnit
    /\ Len(trace) = 2
    /\ trace[1].addr = 112
    /\ trace[1].ops = <<[op |-> "Write", bytes |-> <<1>>, len |-> 1]>>
    /\ trace[2].addr = 66
    /\ trace[2].ops = <<[op |-> "Write", bytes |-> <<1, 2, 3>>, len |-> 3]>>

\* C7: when a proxy transaction returns, with Ok, with Error::Bus from the
\* control-byte write or with Error::Bus from the forwarded transaction, its
\* guard has been dropped: no guard exists and the lock is free.
C7_TransactionReleasesGuard ==
    (ret.call.op = "transaction" /\ ret.result.tag \in {"Ok", "Bus"}) =>
        /\ ret.io # <<>>
        /\ ret.by \notin guards
        /\ guards = {}
        /\ LockAvailable

\* A proxy transaction has just returned Error::Bus from its forwarded transaction.
C7_Witness ==
    /\ ret.call.op = "transaction"
    /\ ret.result.tag = "Bus"
    /\ Len(ret.io) = 2
    /\ ret.io[2].how = "transaction"

\* C8: when a caller drops a guard it was handed, the lock is free in the
\* state the drop leads to, and any caller waiting for the lock can be granted
\* it at once; the same holds right after a proxy transaction has completed, so
\* that a bus / bus_async call made next gets the guard.
C8_DropFreesLock ==
    /\ ret.call.op = "drop" =>
            /\ guards = {}
            /\ ~poisoned
            /\ \A q \in Callers : pc[q] = "acquire" => ENABLED (Acquire(q) /\ q \in guards')
    /\ (ret.call.op = "transaction" /\ ret.result = OkUnit) =>
            \A q \in Callers :
                (pc[q] = "acquire" /\ call[q].op = "bus") =>
                    ENABLED (Acquire(q) /\ guards' = {q} /\ ret'.result = OkGuard)
    /\ (ret.call.op = "bus" /\ ret.result = OkGuard) => guards = {ret.by}

\* A caller has just dropped its guard while another caller waits for the lock.
C8_Witness ==
    /\ ret.call.op = "drop"
    /\ \E q \in Callers : q # ret.by /\ pc[q] = "acquire"

\* The channels a mask enables.
BitsOf(m) == {i \in 0..7 : (m \div (2 ^ i)) % 2 = 1}

\* C9: for id < 8, single_subbus(id) gives a proxy whose mask has exactly bit
\* id set and fits in 8 bits, and a call through it writes the control byte
\* 1 << id; for id >= 8 the caller faults and no call is made through a proxy.
C9_SingleSubbus ==
    /\ \A p \in Callers :
            call[p].via = "single_subbus" =>
                /\ call[p].arg < 8
                /\ call[p].mask \in 0..255
                /\ BitsOf(call[p].mask) = {call[p].arg}
    /\ ret.call.via = "single_subbus" =>
            IF ret.call.arg < 8
            THEN /\ ret.result # Panicked
                 /\ BitsOf(ret.call.mask) = {ret.call.arg}
                 /\ ret.io # <<>>
                 /\ ret.io[1].how = "write"
                 /\ ret.io[1].ops = <<[op |-> "Write", bytes |-> <<2 ^ ret.call.arg>>, len |-> 1]>>
            ELSE /\ ret.result = Panicked
                 /\ pc[ret.by] = "panicked"
                 /\ ret.io = <<>>
                 /\ trace = <<>>

\* A transaction through single_subbus(7) has succeeded with control byte 0x80.
C9_Witness ==
    /\ ret.call.via = "single_subbus"
    /\ ret.call.arg = 7
    /\ ret.call.op = "transaction"
    /\ ret.result = OkUnit
    /\ trace[1].ops[1].bytes = <<128>>

\* What a select of mask by the caller of the returned call comes to: the guard
\* and one written control byte, or the bus's error, one refused write and no guard.
SelectOutcome(mask) ==
    \/ /\ ret.result = OkGuard
       /\ ret.io = <<ControlWrite(ret.by, mask, "ok")>>
       /\ trace = ret.io
       /\ guards = {ret.by}
    \/ \E e \in BusErrors :
            /\ ret.result = [tag |-> "Bus", err |-> e]
            /\ ret.io = <<ControlWrite(ret.by, mask, e)>>
            /\ trace = ret.io
            /\ guards = {}

\* C10: for id < 8, select_single(id) / select_single_async(id) ends with the
\* bus trace, result and lock state that select_mask(1 << id) ends with; for
\* id >= 8 it faults with the lock not taken and the bus untouched.
C10_SelectSingle ==
    /\ ret.call.op = "select_mask" => SelectOutcome(ret.call.arg)
    /\ ret.call.op = "select_single" =>
            IF ret.call.arg < 8
            THEN SelectOutcome(2 ^ ret.call.arg)
            ELSE /\ ret.result = Panicked
                 /\ pc[ret.by] = "panicked"
                 /\ ret.io = <<>>
                 /\ trace = <<>>
                 /\ guards = {}

\* select_single(7) has just returned the guard after writing 0x80.
C10_Witness ==
    /\ ret.call.op = "select_single"
    /\ ret.call.arg = 7
    /\ ret.result = OkGuard
    /\ chip = 128

\* C14: no step of a call is retried.  A call that waits for the lock or has
\* just been granted it has issued nothing; a transaction about to forward has
\* issued its one successful control write; a returned call has issued at most
\* one control write and then at most one forwarded transaction, nothing after
\* the first failing step, and its error is tagged Mutex when lock() failed and
\* Bus, with the bus's error, when the failing step was a bus operation.
C14_NoRetry ==
    /\ \A p \in Callers :
        /\ pc[p] \in {"acquire", "write"} => IssuedBy(p, trace) = <<>>
        /\ pc[p] = "write" => guards = {p}
        /\ pc[p] = "forward" =>
                IssuedBy(p, trace) = <<ControlWrite(p, call[p].mask, "ok")>>
    /\ (ret.call.op \in LockingOps /\ ret.result # Panicked) =>
        /\ Len(ret.io) <= 2
        /\ ret.result.tag = "Mutex" <=> poisoned
        /\ ret.result.tag = "Mutex" => ret.io = <<>>
        /\ Len(ret.io) >= 1 =>
                /\ ret.io[1].how = "write"
                /\ ret.io[1].res # "ok" =>
                        /\ Len(ret.io) = 1
                        /\ ret.result = [tag |-> "Bus", err |-> ret.io[1].res]
                /\ (ret.io[1].res = "ok" /\ Len(ret.io) = 1) => ret.result = OkGuard
        /\ Len(ret.io) = 2 =>
                /\ ret.call.op = "transaction"
                /\ ret.io[2].how = "transaction"
                /\ ret.result = IF ret.io[2].res = "ok" THEN OkUnit
                                ELSE [tag |-> "Bus", err |-> ret.io[2].res]

\* One call has failed at its control write and issued nothing more; a later
\* proxy transaction has failed at its forward, after its own control write.
C14_Witness ==
    /\ ret.call.op = "transaction"
    /\ ret.result.tag = "Bus"
    /\ Len(ret.io) = 2
    /\ ret.io[1].res = "ok"
    /\ ret.io[2].res # "ok"
    /\ Len(trace) = 3
    /\ trace[1].res # "ok"

\* The last bus operation of the call that has just returned.
LastIo == ret.io[Len(ret.io)]

\* C16: the error a call returns is either Error::Mutex or Error::Bus(e).
\* Error::Mutex comes from a failed lock(), not from the bus, and its kind() is
\* Overrun; Error::Bus(e) carries the error e the bus reported for the call's
\* last operation and its kind() is the kind of e.
C16_ErrorKind ==
    /\ ret.result.tag \in {"None", "Ok", "OkGuard", "Panic", "Mutex", "Bus"}
    /\ ret.result.tag = "Mutex" =>
            /\ Kind(ret.result) = "Overrun"
            /\ ret.io = <<>>
    /\ ret.result.tag = "Bus" =>
            /\ ret.io # <<>>
            /\ LastIo.res \in BusErrors
            /\ ret.result.err = LastIo.res
            /\ Kind(ret.result) = BusErrorKind(LastIo.res)
            /\ Kind(ret.result) \in {"NoAcknowledge", "ArbitrationLoss"}

\* A select on a poisoned lock has returned Error::Mutex, whose kind is Overrun.
C16_Witness ==
    /\ ret.result = ErrMutex
    /\ ret.call.op \in SelectingOps
    /\ poisoned
    /\ Kind(ret.result) = "Overrun"

\* The positions of the forwarded transactions in the bus trace.
ForwardedAt == {i \in 1..Len(trace) : trace[i].how = "transaction"}

\* C18: the controller caches no mask.  Every forwarded transaction in the bus
\* trace directly follows a successful one-byte control write to the chip by
\* the same caller, whatever mask the chip latched before, so control writes
\* and forwarded transactions of proxy transactions alternate strictly; a
\* proxy transaction that returns Ok has added exactly its control write and
\* its forwarded transaction to the end of the trace.
C18_NoMaskCache ==
    /\ \A i \in ForwardedAt :
        /\ i >= 2
        /\ trace[i - 1].how = "write"
        /\ trace[i - 1].res = "ok"
        /\ trace[i - 1].by = trace[i].by
        /\ trace[i - 1].addr = address
        /\ Len(trace[i - 1].ops) = 1
        /\ trace[i - 1].ops[1].len = 1
    /\ (ret.call.op = "transaction" /\ ret.result = OkUnit) =>
        /\ Len(trace) >= 2 * Cardinality(ForwardedAt)
        /\ SubSeq(trace, Len(trace) - 1, Len(trace)) =
                <<ControlWrite(ret.by, ret.call.mask, "ok"),
                  Forwarded(ret.by, ret.call.target, ret.call.ops, "ok")>>
    /\ \A p \in Callers : pc[p] = "forward" =>
            trace[Len(trace)] = ControlWrite(p, call[p].mask, "ok")

\* Two proxy transactions with the same mask have succeeded one after the
\* other: the bus saw the same control write twice, each before its transaction.
C18_Witness ==
    /\ ret.call.op = "transaction"
    /\ ret.result = OkUnit
    /\ Len(trace) = 4
    /\ ForwardedAt = {2, 4}
    /\ trace[1].ops = trace[3].ops
    /\ trace[2].res = "ok"

\* Caller p is inside a locking call made while it still owns a guard of the
\* same controller.
Reentered(p) == pc[p] = "acquire" /\ p \in guards

\* C20: the lock is not reentrant.  A caller that makes a locking call on the
\* controller while it still owns a guard of it is never granted the lock for
\* that call: in such a state neither lock() can return to it nor can it drop
\* the guard it holds, it has issued no bus operation in the call, and every
\* step leaves it waiting with its guard, unless the std mutex panics in
\* lock(), which ends the call without a return.
C20_NotReentrant ==
    /\ [](\A p \in Callers : Reentered(p) =>
            /\ ~ENABLED Acquire(p)
            /\ ~ENABLED DropGuard(p)
            /\ guards = {p}
            /\ IssuedBy(p, trace) = <<>>)
    /\ [][\A p \in Callers : Reentered(p) =>
            \/ pc'[p] = "acquire" /\ p \in guards' /\ call'[p] = call[p]
            \/ kind = "std" /\ pc'[p] = "panicked" /\ ret'.result = Panicked]_vars

\* A caller that holds the guard from select_mask is inside a proxy
\* transaction on the same controller, and the other caller waits as well.
C20_Witness ==
    \E p \in Callers :
        /\ Reentered(p)
        /\ call[p].op = "transaction"
        /\ trace # <<>>
        /\ trace[Len(trace)].by = p

\* The calls that only hand out a proxy.
ProxyMakers == {"subbus", "single_subbus"}

\* C17: construction and proxy creation stay off the bus and off the lock.
\* After new the bus trace is empty and no guard exists; a step in which subbus
\* or single_subbus returns leaves the bus trace, the chip, the guards and
\* every caller's position as they were, and the proxy carries the mask given
\* (bit id for single_subbus); an idle caller can always make a proxy, also
\* while another caller holds the guard; no step changes the stored address.
C17_ProxyFrame ==
    /\ (trace = <<>> /\ guards = {} /\ address \in ChipAddresses)
    /\ [][address' = address]_vars
    /\ [][ret'.call.op \in ProxyMakers =>
            /\ trace' = trace
            /\ chip' = chip
            /\ ret'.io = <<>>
            /\ ret'.result = OkProxy =>
                    /\ guards' = guards
                    /\ pc' = pc
                    /\ poisoned' = poisoned
                    /\ ret'.call.mask = IF ret'.call.op = "subbus" THEN ret'.call.arg
                                        ELSE 2 ^ ret'.call.arg]_vars
    /\ [](\A p \in Callers : pc[p] = "idle" =>
            /\ ENABLED MakeSubbus(p, 255)
            /\ ENABLED MakeSingleSubbus(p, 7))

\* A caller has made the proxy of channel 7 while the other caller, holding the
\* guard, is between its control write and its forwarded transaction.
C17_Witness ==
    /\ ret.call.op = "single_subbus"
    /\ ret.call.arg = 7
    /\ ret.result = OkProxy
    /\ \E q \in Callers : q # ret.by /\ pc[q] = "forward" /\ guards = {q}
    /\ address = BASE_ADDRESS + 7

\* C12: an async acquire whose future is dropped before the lock was granted
\* ends without the lock: the cancelled call has issued no bus operation, the
\* step that cancels it changes neither the guards nor the bus trace nor the
\* chip, the caller is out of the call and lock() cannot be granted to it, and
\* a guard only ever goes to a caller that is waiting inside a live call.
C12_CancelledAcquire ==
    /\ [](ret.result = Cancelled("acquire") =>
            /\ ret.io = <<>>
            /\ pc[ret.by] = "idle"
            /\ call[ret.by] = NoCall
            /\ ~ENABLED Acquire(ret.by))
    /\ [][ret'.result = Cancelled("acquire") =>
            /\ guards' = guards
            /\ trace' = trace
            /\ chip' = chip]_vars
    /\ [][\A p \in Callers : (p \in guards' /\ p \notin guards) =>
            /\ pc[p] = "acquire"
            /\ call[p].op \in LockingOps]_vars

\* A task waiting for the lock has been cancelled while the other task, in the
\* middle of its proxy transaction, holds the guard.
C12_Witness ==
    /\ ret.result = Cancelled("acquire")
    /\ ret.call.op = "transaction"
    /\ \E q \in Callers : q # ret.by /\ guards = {q} /\ pc[q] = "forward"

\* C19: a task cancelled while it holds the guard inside an async select or
\* proxy transaction leaves no guard behind: the lock is free and any waiting
\* caller can be granted it.  Whatever mask the cancelled task left on the
\* chip, a caller about to forward has just written its own control byte and
\* the chip latches its mask, and every forwarded transaction in the bus trace
\* directly follows a successful control write by the same caller.
C19_CancelReleasesGuard ==
    /\ (ret.result.tag = "Cancelled" /\ ret.result.err \in {"write", "forward"}) =>
        /\ ret.by \notin guards
        /\ guards = {}
        /\ ret.io # <<>>
        /\ ret.io[Len(ret.io)].res = "cancelled"
        /\ \A q \in Callers : pc[q] = "acquire" => ENABLED Acquire(q)
    /\ \A q \in Callers : pc[q] = "forward" =>
        /\ chip = call[q].mask
        /\ trace[Len(trace)] = ControlWrite(q, call[q].mask, "ok")
    /\ \A i \in ForwardedAt :
        /\ i >= 2
        /\ trace[i - 1].how = "write"
        /\ trace[i - 1].res = "ok"
        /\ trace[i - 1].by = trace[i].by
        /\ trace[i - 1].addr = address

\* A task was cancelled during its forwarded transaction, leaving its mask on
\* the chip; the other task's proxy transaction, with another mask, has then
\* succeeded after writing its own control byte.
C19_Witness ==
    /\ ret.call.op = "transaction"
    /\ ret.result = OkUnit
    /\ Len(trace) = 4
    /\ trace[2].how = "transaction"
    /\ trace[2].res = "cancelled"
    /\ trace[2].by # ret.by
    /\ trace[1].ops # trace[3].ops
    /\ trace[3] = ControlWrite(ret.by, ret.call.mask, "ok")

\* Task p spins in block_on for a lock whose guard another task holds.
BlockedOnExecutor(p) ==
    /\ pc[p] = "acquire"
    /\ \E q \in Callers \ {p} : q \in guards

\* C13: the blocking adapter deadlocks a single-threaded cooperative executor.
\* When a task calls a blocking entry point while another task of the executor
\* holds the guard, the caller spins in block_on on the only thread: no step is
\* possible any more, neither the holder dropping its guard nor lock()
\* returning to the caller; a call made while the lock is free is granted it.
C13_AdapterDeadlock ==
    \A p \in Callers :
        /\ BlockedOnExecutor(p) =>
            /\ ~ENABLED NextCoop
            /\ ~ENABLED Acquire(p)
            /\ \A q \in guards : pc[q] = "idle" /\ ~ENABLED (ThreadFree(q) /\ DropGuard(q))
            /\ IssuedBy(p, trace) = <<>>
        /\ (pc[p] = "acquire" /\ guards = {}) => ENABLED (ThreadFree(p) /\ Acquire(p))

\* A task is inside the blocking select_mask while the other task, suspended
\* between two calls, holds the guard it got from an earlier successful select.
C13_Witness ==
    \E p \in Callers :
        /\ BlockedOnExecutor(p)
        /\ call[p].op = "select_mask"
        /\ trace # <<>>
        /\ chip = 5

\* The callers inside a call.
InCall == {p \in Callers : pc[p] \in {"acquire", "write", "forward"}}

\* C11: with callers that only perform proxy transactions, every call
\* terminates.  A caller waiting for the lock eventually leaves lock() (with
\* the guard or with the lock's error), a caller inside a transaction
\* eventually returns, and there is no deadlock: whenever some caller is inside
\* a call, some caller inside a call can take its next step, and the guard, if
\* one exists, belongs to a caller that is about to perform a bus operation.
C11_Termination ==
    /\ \A p \in Callers : (pc[p] = "acquire") ~> (pc[p] # "acquire")
    /\ \A p \in Callers : (p \in InCall) ~> (pc[p] = "idle")
    /\ [](InCall # {} => \E q \in InCall : ENABLED Step(q))
    /\ [](guards \subseteq {q \in Callers : pc[q] \in {"write", "forward"}})

\* A proxy transaction has returned Ok after it had to wait: between its call
\* and its return the other caller's whole transaction went over the bus.
C11_Witness ==
    /\ ret.call.op = "transaction"
    /\ ret.result = OkUnit
    /\ Len(trace) - ret.call.mark = 4
    /\ trace[ret.call.mark + 1].by # ret.by

\* What a returned call r has done when it was granted the lock, as a function
\* of the call and of the bus's answers alone: the bus operations it issued,
\* its tagged result and whether its caller owns the guard afterwards.
GrantedOutcome(r) ==
    LET cw(res) == ControlWrite(r.by, r.call.mask, res)
        fw(res) == Forwarded(r.by, r.call.target, r.call.ops, res)
        res1 == r.io[1].res
        res2 == r.io[2].res
    IN  CASE r.call.op = "bus" ->
                /\ r.io = <<>>
                /\ r.result = OkGuard
                /\ guards = {r.by}
          [] r.call.op \in {"select_mask", "select_single", "select"} ->
                /\ Len(r.io) = 1
                /\ r.io = <<cw(res1)>>
                /\ r.result = IF res1 = "ok" THEN OkGuard ELSE [tag |-> "Bus", err |-> res1]
                /\ guards = IF res1 = "ok" THEN {r.by} ELSE {}
          [] r.call.op = "transaction" ->
                /\ Len(r.io) \in {1, 2}
                /\ r.io[1] = cw(res1)
                /\ Len(r.io) = 1 <=> res1 # "ok"
                /\ Len(r.io) = 1 => r.result = [tag |-> "Bus", err |-> res1]
                /\ Len(r.io) = 2 =>
                        /\ r.io[2] = fw(res2)
                        /\ r.result = IF res2 = "ok" THEN OkUnit
                                      ELSE [tag |-> "Bus", err |-> res2]
                /\ guards = {}

\* A call that took part in locking has just returned (it did not panic).
Returned == ret.call.op \in LockingOps /\ ret.result # Panicked

\* The statement of C15 as it stands: whatever the variant, a returned call
\* has the outcome its arguments and the bus's answers determine.
C15_SameOutcome == Returned => GrantedOutcome(ret)

\* C15: for the same call and the same bus answers the blocking entry points
\* (on std::sync::Mutex and through the async-to-sync adapter) and the
\* suspending ones (on the embassy mutex) issue the same bus operations, return
\* the same tagged result and leave the same lock state, with one exception:
\* on a std mutex poisoned by a panicking guard holder the blocking call
\* returns Error::Mutex with no bus operation and no guard, which the embassy
\* mutex, whose lock cannot fail, never does.
C15_SameOutcomeUnlessPoisoned ==
    /\ Returned =>
        IF ret.result.tag = "Mutex"
        THEN /\ kind = "std"
             /\ ret.call.mode = "sync"
             /\ poisoned
             /\ ret.io = <<>>
             /\ ret.by \notin guards
        ELSE GrantedOutcome(ret)
    /\ (Returned /\ kind = "std" /\ poisoned) => ret.result.tag = "Mutex"
    /\ \A p \in Callers : call[p].mode = IF pc[p] \in {"idle", "panicked"} THEN "none"
                                         ELSE IF kind = "embassy" THEN "async" ELSE "sync"

\* The suspending proxy transaction has returned Error::Bus from its forward
\* after a successful control write, on a bus the other task had used before.
C15_Witness ==
    /\ kind = "embassy"
    /\ ret.call.mode = "async"
    /\ ret.call.op = "transaction"
    /\ ret.result.tag = "Bus"
    /\ Len(ret.io) = 2
    /\ Len(trace) > 2
    /\ GrantedOutcome(ret)

=============================================================================
